---- MODULE Spec2Model ----
(***************************************************************************)
(* A model of agentboost's argument parser, parseArgs (src/utils.ts).      *)
(*                                                                         *)
(* A token is a sequence of one-character strings, so that the tests the   *)
(* code makes on the text of a token (startsWith, includes, indexOf,       *)
(* slice, the two regular expressions) are computed, not assumed.          *)
(* Indices are 0-based as in the source: argv[k] is written At(argv, k).    *)
(*                                                                         *)
(* One call of parseArgs is one behaviour: Init chooses argv, and each     *)
(* iteration of the two loops is one action.  scan1, scan2 record the      *)
(* iterations made (position, branch taken, advance, setParam calls), so   *)
(* that what a pass did at an index can be stated as a state predicate.    *)
(***************************************************************************)
EXTENDS Integers, Sequences, FiniteSets, TLC

VARIABLES argv, pc, j, commandIndex, command, i, params, result, scan1, scan2

\* The caller's side of parseArgs: the array as it was passed, the number of calls
\* made, and what the first call was given and returned.
VARIABLES input, invocations, first

\* An AgentBoost instance (src/index.ts): the plugins map and the detected set, each
\* as the sequence of its keys in insertion order, which is the order JavaScript
\* iterates a Map and a Set in.
VARIABLES plugins, detected

\* The emit under way ("none", "detect", "compile"), the position of its loop, the
\* detect() calls (plugin and value returned) and compile() calls (plugin) of the
\* latest emit of each kind, the fragments pushed, the value the latest
\* emit('compile') returned, and the plugins whose detect() has ever returned true.
VARIABLES emitting, cursor, detectCalls, compileCalls, compiled, emitted, everTrue

\* run(argv): where it is, the command it dispatches on, what it did in order
\* (console output, emits, the writeFile call, process.exit), and AGENTS.md: the
\* state of the write ("none", "pending", "written", "failed") and the content.
VARIABLES runPc, runCommand, runTrace, fileState, agentsMd

boostVars == <<plugins, detected, emitting, cursor, detectCalls, compileCalls, compiled,
               emitted, everTrue, runPc, runCommand, runTrace, fileState, agentsMd>>

\* The project directory the plugins' tools look at (package.json, one more file, and
\* the list of files), and the latest call made on the readFile tool or on a
\* NextJSPlugin, with its outcome.
VARIABLES disk, called

toolVars == <<disk, called>>

\* What a step of parseArgs leaves alone.
outside == <<input, invocations, first, boostVars, toolVars>>

\* A new AgentBoost(cwd) on which nothing was called.
BoostNew ==
  /\ plugins = <<>>
  /\ detected = <<>>
  /\ emitting = "none"
  /\ cursor = 0
  /\ detectCalls = <<>>
  /\ compileCalls = <<>>
  /\ compiled = <<>>
  /\ emitted = <<>>
  /\ everTrue = {}
  /\ runPc = "idle"
  /\ runCommand = <<>>
  /\ runTrace = <<>>
  /\ fileState = "none"
  /\ agentsMd = <<>>

\* JavaScript's undefined, as a tagged value.
JsUndefined == [t |-> "undefined"]

\* A path at which fs.readFile rejects: no such file.
Absent == [k |-> "absent"]

\* The empty string, as a text.
EmptyText == [kind |-> "empty"]

\* No call made yet.
NoCall ==
  [op |-> "none", ctx |-> JsUndefined, path |-> "", threw |-> FALSE, ret |-> EmptyText,
   value |-> "", lines |-> <<>>]

\* Nothing has looked at the project directory.
ToolsIdle ==
  /\ disk = [package |-> Absent, notes |-> Absent, gitignore |-> FALSE, files |-> <<>>]
  /\ called = NoCall

vars == <<argv, pc, j, commandIndex, command, i, params, result, scan1, scan2, outside>>

\* Longest argv the model calls parseArgs with.
MaxArgs == 3

\* The tokens argv is drawn from: every shape the two passes tell apart.
Tokens ==
  { <<>>,                                 \* ""
    <<"-">>,                              \* "-"
    <<"-", "-">>,                         \* "--"
    <<"-", "a">>,                         \* "-a"
    <<"-", "-", "a">>,                    \* "--a"
    <<"-", "-", "-", "a">>,               \* "---a"
    <<"-", "a", "b">>,                    \* "-ab"
    <<"a">>,                              \* "a"
    <<"b">>,                              \* "b"
    <<"a", "=">>,                         \* "a="
    <<"=", "a">>,                         \* "=a"
    <<"a", "=", "b", "=", "a">>,          \* "a=b=a"
    <<"-", "-", "=", "a">>,               \* "--=a"
    <<"-", "-", "-", "a", "=", "b">>,     \* "---a=b"
    <<"-", "a", "b", "=", "a">> }         \* "-ab=a"

RECURSIVE SeqsUpTo(_, _)
SeqsUpTo(S, n) ==
  IF n = 0 THEN { <<>> }
  ELSE LET shorter == SeqsUpTo(S, n - 1)
       IN  shorter \cup { Append(s, x) : s \in { t \in shorter : Len(t) = n - 1 }, x \in S }

Argvs == SeqsUpTo(Tokens, MaxArgs)

\* commandIndex before pass 1 finds a candidate (let commandIndex: number | undefined).
Undefined == -1

\* The literal 'true' bound to a flag without a value.
TrueStr == <<"t", "r", "u", "e">>

----------------------------------------------------------------------------
(* String primitives *)

\* argv[k], 0-based; only used where k < argv.length.
At(a, k) == a[k + 1]

\* s.slice(from): the text from 0-based index from to the end.
slice(s, from) == SubSeq(s, from + 1, Len(s))

\* s.slice(0, to)
sliceTo(s, to) == SubSeq(s, 1, to)

\* Mutant: lastIndexOf in place of indexOf.
indexOfEq_Last(s) == (CHOOSE k \in 1..Len(s) : s[k] = "=" /\ \A m \in (k + 1)..Len(s) : s[m] # "=") - 1

\* s.indexOf('='), 0-based; only used where s contains '='.
indexOfEq(s) == (CHOOSE k \in 1..Len(s) : s[k] = "=" /\ \A m \in 1..(k - 1) : s[m] # "=") - 1

\* s.startsWith('-')
startsWithDash(s) == Len(s) > 0 /\ s[1] = "-"

isFlagLike(s) == startsWithDash(s)

\* Mutant: '=' counts only after a non-empty key, so "=a" is not key=value.
isKeyEqVal_NeedsKey(s) == \E k \in 2..Len(s) : s[k] = "="

isKeyEqVal(s) == \E k \in 1..Len(s) : s[k] = "="

\* /^-[^-]{2,}$/.test(s)
isCombinedShort(s) == Len(s) >= 3 /\ s[1] = "-" /\ \A k \in 2..Len(s) : s[k] # "-"

\* Mutant: every leading dash is removed.
stripDashes_All(s) ==
  slice(s, CHOOSE k \in 0..Len(s) :
             /\ \A m \in 1..k : s[m] = "-"
             /\ (k = Len(s) \/ s[k + 1] # "-"))

\* s.replace(/^--?/, '')
stripDashes(s) ==
  IF Len(s) >= 2 /\ s[1] = "-" /\ s[2] = "-" THEN slice(s, 2)
  ELSE IF Len(s) >= 1 /\ s[1] = "-" THEN slice(s, 1)
  ELSE s

\* The truthiness of argv[k]: undefined past the end, and '' is falsy too.
truthyAt(a, k) == k < Len(a) /\ At(a, k) # <<>>

\* Mutant: pass 1 never treats the next token as a value.
nxtIsValue_Never(a, k) == FALSE

\* Pass 1's test of the next token: nxt && !isFlagLike(nxt) && !isKeyEqVal(nxt)
nxtIsValue(a, k) == truthyAt(a, k) /\ ~isFlagLike(At(a, k)) /\ ~isKeyEqVal(At(a, k))

\* Mutant: pass 2 applies pass 1's test, which refuses a key=value token as a value.
nextIsValue_NoKeyValue(a, k) == truthyAt(a, k) /\ ~isFlagLike(At(a, k)) /\ ~isKeyEqVal(At(a, k))

\* Mutant: pass 2 takes any non-empty next token as the value, dashes included.
nextIsValue_AnyTruthy(a, k) == truthyAt(a, k)

\* Pass 2's test of the next token: next && !next.startsWith('-')
nextIsValue(a, k) == truthyAt(a, k) /\ ~startsWithDash(At(a, k))

----------------------------------------------------------------------------
(* params *)

\* Mutant: setParam without its guard on the empty key.
setParam_NoGuard(p, key, val) == (key :> val) @@ p

\* Mutant: setParam keeps the value a key already has.
setParam_FirstWins(p, key, val) == IF key = <<>> THEN p ELSE p @@ (key :> val)

setParam(p, key, val) == IF key = <<>> THEN p ELSE (key :> val) @@ p

\* for (const ch of shorts) setParam(ch, 'true')
RECURSIVE setShorts(_, _)
setShorts(p, shorts) ==
  IF shorts = <<>> THEN p
  ELSE setShorts(setParam(p, <<Head(shorts)>>, TrueStr), Tail(shorts))

\* The setParam calls of the loop over shorts, in order.
shortCalls(shorts) == [k \in 1..Len(shorts) |-> <<<<shorts[k]>>, TrueStr>>]

\* Mutant: pass 1 tests isFlagLike before isKeyEqVal.
branch1_FlagFirst(tok) ==
  IF isFlagLike(tok) THEN "flag"
  ELSE IF isKeyEqVal(tok) THEN "keyeqval"
  ELSE "bare"

\* The order of pass 1's tests on a token.
branch1(tok) ==
  IF isKeyEqVal(tok) THEN "keyeqval"
  ELSE IF isFlagLike(tok) THEN "flag"
  ELSE "bare"

\* Mutant: pass 2 does not skip the command index.
branch2_NoSkip(k, ci, tok) ==
  IF isKeyEqVal(tok) THEN "keyeqval"
  ELSE IF isFlagLike(tok) THEN (IF isCombinedShort(tok) THEN "combined" ELSE "flag")
  ELSE "bare"

\* The order of pass 2's tests at position k.
branch2(k, ci, tok) ==
  IF k = ci THEN "command"
  ELSE IF isKeyEqVal(tok) THEN "keyeqval"
  ELSE IF isFlagLike(tok) THEN (IF isCombinedShort(tok) THEN "combined" ELSE "flag")
  ELSE "bare"

\* Mutant: a flag never takes the next token in pass 1.
flagTakesNext_Never(a, k) == FALSE

\* Mutant: a combined short flag takes the next token like any other flag.
flagTakesNext_EvenCombined(a, k) == nxtIsValue(a, k + 1)

\* Whether a flag visited by pass 1 at k takes argv[k + 1] as its value.
flagTakesNext(a, k) == ~isCombinedShort(At(a, k)) /\ nxtIsValue(a, k + 1)

\* Mutant: the result always carries both fields.
makeResult_KeepEmpty(cmd, p) ==
  [command |-> IF cmd = <<>> THEN <<>> ELSE cmd[1], params |-> p]

\* { ...(command ? { command } : {}), ...(Object.keys(params).length ? { params } : {}) }
\* command is <<>> when undefined and <<tok>> when set.
makeResult(cmd, p) ==
  (IF cmd # <<>> /\ cmd[1] # <<>> THEN [command |-> cmd[1]] ELSE <<>>)
  @@ (IF DOMAIN p # {} THEN [params |-> p] ELSE <<>>)

----------------------------------------------------------------------------
(* parseArgs *)

Init ==
  /\ argv \in Argvs
  /\ pc = "start"
  /\ j = 0
  /\ i = 0
  /\ commandIndex = Undefined
  /\ command = <<>>
  /\ params = <<>>
  /\ result = <<>>
  /\ scan1 = <<>>
  /\ scan2 = <<>>
  /\ input = argv
  /\ invocations = 1
  /\ first = <<>>
  /\ BoostNew
  /\ ToolsIdle

\* Mutant: the guard returns the empty params object instead of {}.
EmptyReturn_WithParams ==
  /\ pc = "start"
  /\ Len(argv) = 0
  /\ result' = [params |-> params]
  /\ pc' = "done"
  /\ UNCHANGED <<argv, j, commandIndex, command, i, params, scan1, scan2>>
  /\ UNCHANGED outside

\* if (!argv || argv.length === 0) return {};
EmptyReturn ==
  /\ pc = "start"
  /\ Len(argv) = 0
  /\ result' = <<>>
  /\ pc' = "done"
  /\ UNCHANGED <<argv, j, commandIndex, command, i, params, scan1, scan2>>
  /\ UNCHANGED outside

Begin ==
  /\ pc = "start"
  /\ Len(argv) # 0
  /\ pc' = "pass1"
  /\ UNCHANGED <<argv, j, commandIndex, command, i, params, result, scan1, scan2>>
  /\ UNCHANGED outside

\* The indices of argv an iteration of pass 1 reads: argv[j], and argv[j + 1] where
\* the branch taken peeks at nxt.
reads1(br) ==
  IF br = "keyeqval" \/ (br = "flag" /\ isCombinedShort(At(argv, j))) THEN {j} ELSE {j, j + 1}

Step1(br, adv) ==
  Append(scan1, [at |-> j, branch |-> br, adv |-> adv, reads |-> reads1(br)])

Pass1KeyEqVal ==
  /\ pc = "pass1"
  /\ j < Len(argv)
  /\ branch1(At(argv, j)) = "keyeqval"
  /\ j' = j + 1
  /\ scan1' = Step1("keyeqval", 1)
  /\ UNCHANGED <<argv, pc, commandIndex, command, i, params, result, scan2>>
  /\ UNCHANGED outside

Pass1Flag ==
  /\ pc = "pass1"
  /\ j < Len(argv)
  /\ branch1(At(argv, j)) = "flag"
  /\ LET adv == IF flagTakesNext(argv, j) THEN 2 ELSE 1
     IN  /\ j' = j + adv
         /\ scan1' = Step1("flag", adv)
  /\ UNCHANGED <<argv, pc, commandIndex, command, i, params, result, scan2>>
  /\ UNCHANGED outside

\* Mutant: the pair branch forgets j += 1 and only skips the key.
Pass1Pair_KeyOnly ==
  /\ pc = "pass1"
  /\ j < Len(argv)
  /\ branch1(At(argv, j)) = "bare"
  /\ nxtIsValue(argv, j + 1)
  /\ j' = j + 1
  /\ scan1' = Step1("pair", 1)
  /\ UNCHANGED <<argv, pc, commandIndex, command, i, params, result, scan2>>
  /\ UNCHANGED outside

Pass1Pair ==
  /\ pc = "pass1"
  /\ j < Len(argv)
  /\ branch1(At(argv, j)) = "bare"
  /\ nxtIsValue(argv, j + 1)
  /\ j' = j + 2
  /\ scan1' = Step1("pair", 2)
  /\ UNCHANGED <<argv, pc, commandIndex, command, i, params, result, scan2>>
  /\ UNCHANGED outside

\* Mutant: an empty candidate is passed over and the scan goes on to later tokens.
Pass1Candidate_SkipEmpty ==
  /\ pc = "pass1"
  /\ j < Len(argv)
  /\ branch1(At(argv, j)) = "bare"
  /\ ~nxtIsValue(argv, j + 1)
  /\ IF At(argv, j) = <<>>
     THEN /\ j' = j + 1
          /\ scan1' = Step1("bare", 1)
          /\ UNCHANGED <<commandIndex, command, pc>>
     ELSE /\ commandIndex' = j
          /\ command' = <<At(argv, j)>>
          /\ scan1' = Step1("candidate", 0)
          /\ pc' = "pass2"
          /\ UNCHANGED j
  /\ UNCHANGED <<argv, i, params, result, scan2>>
  /\ UNCHANGED outside

\* commandIndex ??= j; break;  then  command = argv[commandIndex]
Pass1Candidate ==
  /\ pc = "pass1"
  /\ j < Len(argv)
  /\ branch1(At(argv, j)) = "bare"
  /\ ~nxtIsValue(argv, j + 1)
  /\ commandIndex' = j
  /\ command' = <<At(argv, j)>>
  /\ scan1' = Step1("candidate", 0)
  /\ pc' = "pass2"
  /\ UNCHANGED <<argv, j, i, params, result, scan2>>
  /\ UNCHANGED outside

\* The for loop ends with no candidate: commandIndex and command stay undefined.
Pass1Exhausted ==
  /\ pc = "pass1"
  /\ j >= Len(argv)
  /\ pc' = "pass2"
  /\ UNCHANGED <<argv, j, commandIndex, command, i, params, result, scan1, scan2>>
  /\ UNCHANGED outside

\* The indices of argv an iteration of pass 2 reads: argv[i], and argv[i + 1] where
\* the branch taken peeks at next.
reads2(br) == IF br \in {"flag", "bare"} THEN {i, i + 1} ELSE {i}

Step2(br, adv, calls) ==
  Append(scan2, [at |-> i, branch |-> br, adv |-> adv, calls |-> calls,
                 after |-> params', reads |-> reads2(br)])

\* Mutant: the command skip continues without i += 1.
Pass2SkipCommand_NoAdvance ==
  /\ pc = "pass2"
  /\ i < Len(argv)
  /\ branch2(i, commandIndex, At(argv, i)) = "command"
  /\ i' = i
  /\ params' = params
  /\ scan2' = Step2("command", 0, <<>>)
  /\ UNCHANGED <<argv, pc, j, commandIndex, command, result, scan1>>
  /\ UNCHANGED outside

\* Mutant: the command skip removes the command from argv (argv.splice(i, 1)).
Pass2SkipCommand_Splice ==
  /\ pc = "pass2"
  /\ i < Len(argv)
  /\ branch2(i, commandIndex, At(argv, i)) = "command"
  /\ argv' = SubSeq(argv, 1, i) \o SubSeq(argv, i + 2, Len(argv))
  /\ commandIndex' = Undefined
  /\ params' = params
  /\ scan2' = Step2("command", 0, <<>>)
  /\ UNCHANGED <<pc, j, i, command, result, scan1>>
  /\ UNCHANGED outside

Pass2SkipCommand ==
  /\ pc = "pass2"
  /\ i < Len(argv)
  /\ branch2(i, commandIndex, At(argv, i)) = "command"
  /\ i' = i + 1
  /\ params' = params
  /\ scan2' = Step2("command", 1, <<>>)
  /\ UNCHANGED <<argv, pc, j, commandIndex, command, result, scan1>>
  /\ UNCHANGED outside

Pass2KeyEqVal ==
  /\ pc = "pass2"
  /\ i < Len(argv)
  /\ branch2(i, commandIndex, At(argv, i)) = "keyeqval"
  /\ LET token  == At(argv, i)
         idx    == indexOfEq(token)
         rawKey == sliceTo(token, idx)
         value  == slice(token, idx + 1)
         key    == stripDashes(rawKey)
     IN  /\ params' = setParam(params, key, value)
         /\ scan2' = Step2("keyeqval", 1, << <<key, value>> >>)
  /\ i' = i + 1
  /\ UNCHANGED <<argv, pc, j, commandIndex, command, result, scan1>>
  /\ UNCHANGED outside

Pass2CombinedShort ==
  /\ pc = "pass2"
  /\ i < Len(argv)
  /\ branch2(i, commandIndex, At(argv, i)) = "combined"
  /\ LET shorts == slice(At(argv, i), 1)
     IN  /\ params' = setShorts(params, shorts)
         /\ scan2' = Step2("combined", 1, shortCalls(shorts))
  /\ i' = i + 1
  /\ UNCHANGED <<argv, pc, j, commandIndex, command, result, scan1>>
  /\ UNCHANGED outside

Pass2Flag ==
  /\ pc = "pass2"
  /\ i < Len(argv)
  /\ branch2(i, commandIndex, At(argv, i)) = "flag"
  /\ LET key == stripDashes(At(argv, i))
     IN  IF nextIsValue(argv, i + 1)
         THEN /\ params' = setParam(params, key, At(argv, i + 1))
              /\ i' = i + 2
              /\ scan2' = Step2("flag", 2, << <<key, At(argv, i + 1)>> >>)
         ELSE /\ params' = setParam(params, key, TrueStr)
              /\ i' = i + 1
              /\ scan2' = Step2("flag", 1, << <<key, TrueStr>> >>)
  /\ UNCHANGED <<argv, pc, j, commandIndex, command, result, scan1>>
  /\ UNCHANGED outside

Pass2Bare ==
  /\ pc = "pass2"
  /\ i < Len(argv)
  /\ branch2(i, commandIndex, At(argv, i)) = "bare"
  /\ LET key == At(argv, i)
     IN  IF nextIsValue(argv, i + 1)
         THEN /\ params' = setParam(params, key, At(argv, i + 1))
              /\ i' = i + 2
              /\ scan2' = Step2("bare", 2, << <<key, At(argv, i + 1)>> >>)
         ELSE /\ params' = setParam(params, key, TrueStr)
              /\ i' = i + 1
              /\ scan2' = Step2("bare", 1, << <<key, TrueStr>> >>)
  /\ UNCHANGED <<argv, pc, j, commandIndex, command, result, scan1>>
  /\ UNCHANGED outside

Return ==
  /\ pc = "pass2"
  /\ i >= Len(argv)
  /\ result' = makeResult(command, params)
  /\ pc' = "done"
  /\ UNCHANGED <<argv, j, commandIndex, command, i, params, scan1, scan2>>
  /\ UNCHANGED outside

Next ==
  \/ EmptyReturn
  \/ Begin
  \/ Pass1KeyEqVal
  \/ Pass1Flag
  \/ Pass1Pair
  \/ Pass1Candidate
  \/ Pass1Exhausted
  \/ Pass2SkipCommand
  \/ Pass2KeyEqVal
  \/ Pass2CombinedShort
  \/ Pass2Flag
  \/ Pass2Bare
  \/ Return

Spec == Init /\ [][Next]_vars

----------------------------------------------------------------------------
(* Repeated calls of parseArgs.  The function is synchronous, so calls made by any   *)
(* number of callers run one after the other; whatever a call could leave behind    *)
(* for the next one would be state declared outside the function.                   *)

\* Calls made in one behaviour, and the longest argv of those calls.
MaxCalls == 3
MaxCallArgs == 2

\* The tokens of the repeated calls: one of each shape.
CallTokens == { <<>>, <<"-", "a">>, <<"a">>, <<"a", "=", "b">>, <<"-", "a", "b">> }

CallArgvs == SeqsUpTo(CallTokens, MaxCallArgs)

InitCalls ==
  /\ argv \in CallArgvs
  /\ pc = "start"
  /\ j = 0
  /\ i = 0
  /\ commandIndex = Undefined
  /\ command = <<>>
  /\ params = <<>>
  /\ result = <<>>
  /\ scan1 = <<>>
  /\ scan2 = <<>>
  /\ input = argv
  /\ invocations = 1
  /\ first = <<>>
  /\ BoostNew
  /\ ToolsIdle

\* Mutant: params is declared outside the function and is not created anew per call.
Call_SharedParams ==
  /\ pc = "done"
  /\ invocations < MaxCalls
  /\ \E a \in CallArgvs : argv' = a /\ input' = a
  /\ first' = IF first = <<>> THEN <<[argv |-> argv, result |-> result]>> ELSE first
  /\ invocations' = invocations + 1
  /\ pc' = "start"
  /\ j' = 0
  /\ i' = 0
  /\ commandIndex' = Undefined
  /\ command' = <<>>
  /\ params' = params
  /\ result' = <<>>
  /\ scan1' = <<>>
  /\ scan2' = <<>>
  /\ UNCHANGED boostVars
  /\ UNCHANGED toolVars

\* The next call, after the previous one returned: command, params, i and
\* commandIndex are locals of the function, created at each call.
Call ==
  /\ pc = "done"
  /\ invocations < MaxCalls
  /\ \E a \in CallArgvs : argv' = a /\ input' = a
  /\ first' = IF first = <<>> THEN <<[argv |-> argv, result |-> result]>> ELSE first
  /\ invocations' = invocations + 1
  /\ pc' = "start"
  /\ j' = 0
  /\ i' = 0
  /\ commandIndex' = Undefined
  /\ command' = <<>>
  /\ params' = <<>>
  /\ result' = <<>>
  /\ scan1' = <<>>
  /\ scan2' = <<>>
  /\ UNCHANGED boostVars
  /\ UNCHANGED toolVars

NextCalls == Next \/ Call

SpecCalls == InitCalls /\ [][NextCalls]_vars

----------------------------------------------------------------------------
(* The shapes of a token, as the specification's data model states them.    *)

NonEmptyTok(t) == Len(t) > 0

DashTok(t) == Len(t) > 0 /\ t[1] = "-"

KeyValueTok(t) == \E k \in 1..Len(t) : t[k] = "="

BareTok(t) == ~DashTok(t) /\ ~KeyValueTok(t)

\* A single leading dash, then two or more characters none of which is a dash; no '='.
CombinedShortTok(t) ==
  /\ Len(t) >= 3
  /\ t[1] = "-"
  /\ \A k \in 2..Len(t) : t[k] \notin {"-", "="}

\* A flag that is neither key=value nor a combined short flag.
SimpleFlagTok(t) == DashTok(t) /\ ~KeyValueTok(t) /\ ~CombinedShortTok(t)

\* The token after index k exists, is non-empty, and is neither flag-like nor key=value.
PlainValueAfter(k) ==
  /\ k + 1 < Len(argv)
  /\ NonEmptyTok(argv[k + 2])
  /\ ~DashTok(argv[k + 2])
  /\ ~KeyValueTok(argv[k + 2])

\* The token after index k exists, is non-empty, and does not start with '-'.
NoDashValueAfter(k) ==
  /\ k + 1 < Len(argv)
  /\ NonEmptyTok(argv[k + 2])
  /\ ~DashTok(argv[k + 2])

\* The text of t before / after its first '='.
BeforeEq(t) == SubSeq(t, 1, (CHOOSE k \in 1..Len(t) : t[k] = "=" /\ \A m \in 1..(k - 1) : t[m] # "=") - 1)
AfterEq(t) == SubSeq(t, (CHOOSE k \in 1..Len(t) : t[k] = "=" /\ \A m \in 1..(k - 1) : t[m] # "=") + 1, Len(t))

\* t with one leading "--", or else one leading "-", removed.
Unprefixed(t) ==
  IF Len(t) >= 2 /\ SubSeq(t, 1, 2) = <<"-", "-">> THEN SubSeq(t, 3, Len(t))
  ELSE IF Len(t) >= 1 /\ t[1] = "-" THEN SubSeq(t, 2, Len(t))
  ELSE t

\* The indices pass 1 / pass 2 visited as scan positions so far.
Visited1 == { scan1[n].at : n \in DOMAIN scan1 }
Visited2 == { scan2[n].at : n \in DOMAIN scan2 }

\* params before the n-th pass 2 step.
ParamsBefore(n) == IF n = 1 THEN <<>> ELSE scan2[n - 1].after

\* The call setParam(key, val) had its effect on the mapping p: key -> val is in p,
\* or key is empty and the call was dropped.
Entered(p, key, val) == key # <<>> => (key \in DOMAIN p /\ p[key] = val)

\* The result's command field holds t.
ResultCommandIs(t) == "command" \in DOMAIN result /\ result.command = t

Done == pc = "done"

ThreeBare == Len(argv) = 3 /\ \A k \in 1..3 : BareTok(argv[k]) /\ NonEmptyTok(argv[k])

----------------------------------------------------------------------------
----------------------------------------------------------------------------
\* The Bare tokens pass 1 visited whose next token is absent, flag-like or key=value.
C2_Candidates ==
  { k \in Visited1 :
      /\ BareTok(argv[k + 1])
      /\ \/ k + 1 >= Len(argv)
         \/ DashTok(argv[k + 2])
         \/ KeyValueTok(argv[k + 2]) }

C2_Lowest == CHOOSE k \in C2_Candidates : \A m \in C2_Candidates : k <= m

\* C2 (as stated): the command is the token at the lowest index pass 1 visited that
\* is Bare and whose next token is absent, flag-like or key=value; pass 1 stops at
\* that index; if pass 1 visited no such token the result has no command.  (An empty
\* command token is omitted from the result, as the data model says.)
C2_AsStated ==
  Done /\ Len(argv) > 0 =>
    IF C2_Candidates # {}
    THEN /\ commandIndex = C2_Lowest
         /\ \A k \in Visited1 : k <= C2_Lowest
         /\ IF argv[C2_Lowest + 1] = <<>> THEN "command" \notin DOMAIN result
            ELSE ResultCommandIs(argv[C2_Lowest + 1])
    ELSE "command" \notin DOMAIN result

----------------------------------------------------------------------------
\* C3: when pass 1 records a command index c, pass 2 reaches c as a scan position
\* and skips it (advance by 1, no setParam call, params unchanged), and the position
\* c-1, if pass 2 visits it, does not consume the token at c as its value.
C3_CommandTokenContributesNothing ==
  (Done /\ commandIndex # Undefined) =>
     /\ commandIndex \in Visited2
     /\ \A n \in DOMAIN scan2 :
          /\ scan2[n].at = commandIndex =>
               /\ scan2[n].adv = 1
               /\ scan2[n].calls = <<>>
               /\ scan2[n].after = ParamsBefore(n)
          /\ scan2[n].at = commandIndex - 1 => scan2[n].adv = 1

\* Pass 2 visited the position before the command, a flag or a Bare key, and a
\* non-empty command was skipped there.
C3_Witness ==
  /\ Done
  /\ commandIndex >= 1
  /\ commandIndex - 1 \in Visited2
  /\ ~KeyValueTok(argv[commandIndex])
  /\ ResultCommandIs(argv[commandIndex + 1])

----------------------------------------------------------------------------
\* C4: in pass 2, at a visited token that is a flag other than a combined short flag,
\* or a Bare token other than the command: if the next token is non-empty and does not
\* start with '-', setParam(key, next token) is called and the scan advances by 2,
\* also when the next token is key=value (bound verbatim); otherwise
\* setParam(key, "true") is called and the scan advances by 1.  The key is the token
\* with its dash prefix stripped; the call enters key -> value in params unless the
\* key is empty.
C4_ValueOrTrue ==
  \A n \in DOMAIN scan2 :
    LET s   == scan2[n]
        tok == argv[s.at + 1]
        key == Unprefixed(tok)
        val == IF NoDashValueAfter(s.at) THEN argv[s.at + 2] ELSE TrueStr
    IN  (s.at # commandIndex /\ (SimpleFlagTok(tok) \/ BareTok(tok))) =>
           /\ s.adv = IF NoDashValueAfter(s.at) THEN 2 ELSE 1
           /\ s.calls = << <<key, val>> >>
           /\ Entered(s.after, key, val)
           /\ IF key = <<>> THEN s.after = ParamsBefore(n)
              ELSE \A q \in DOMAIN s.after \ {key} :
                     q \in DOMAIN ParamsBefore(n) /\ s.after[q] = ParamsBefore(n)[q]

\* A flag or Bare key was bound to a following key=value token, verbatim.
C4_Witness ==
  \E n \in DOMAIN scan2 :
    LET s == scan2[n]
    IN  /\ s.branch \in {"flag", "bare"}
        /\ s.adv = 2
        /\ KeyValueTok(argv[s.at + 2])
        /\ Unprefixed(argv[s.at + 1]) \in DOMAIN params
        /\ params[Unprefixed(argv[s.at + 1])] = argv[s.at + 2]

----------------------------------------------------------------------------
\* C5: in pass 1, a visited flag-like token that is neither key=value nor a combined
\* short flag, followed by a non-empty token that is neither flag-like nor key=value,
\* takes that token as its value: pass 1 advances by 2, never visits the next index
\* and never records it as the command.  ["--a", "b"] yields no command and
\* params {a: "b"}.
C5_FlagValueIsNeverCommand ==
  /\ \A n \in DOMAIN scan1 :
       LET s == scan1[n]
       IN  (SimpleFlagTok(argv[s.at + 1]) /\ PlainValueAfter(s.at)) =>
              /\ s.adv = 2
              /\ s.at + 1 \notin Visited1
              /\ commandIndex # s.at + 1
              /\ n < Len(scan1) => scan1[n + 1].at = s.at + 2
  /\ (Done /\ argv = << <<"-", "-", "a">>, <<"b">> >>) => result = [params |-> (<<"a">> :> <<"b">>)]

\* A flag took a Bare value in pass 1 and pass 1 went on to find a command after it.
C5_Witness ==
  /\ Done
  /\ commandIndex # Undefined
  /\ \E n \in DOMAIN scan1 :
       /\ SimpleFlagTok(argv[scan1[n].at + 1])
       /\ PlainValueAfter(scan1[n].at)
       /\ scan1[n].adv = 2

----------------------------------------------------------------------------
----------------------------------------------------------------------------
\* C7: a combined short flag (one leading dash, then two or more non-dash characters,
\* no '=') takes no following token in either pass: pass 2 visits it, calls
\* setParam(ch, "true") for each character ch after the dash, in order, and advances
\* by 1; pass 1, when it visits it, advances by 1, so that its next position is the
\* following token.  ["-ab", "a"] gives command a and params {a: "true", b: "true"}.
C7_CombinedShortTakesNoValue ==
  /\ \A n \in DOMAIN scan1 :
       CombinedShortTok(argv[scan1[n].at + 1]) =>
          /\ scan1[n].adv = 1
          /\ n < Len(scan1) => scan1[n + 1].at = scan1[n].at + 1
  /\ \A n \in DOMAIN scan2 :
       LET s   == scan2[n]
           tok == argv[s.at + 1]
       IN  CombinedShortTok(tok) =>
              /\ s.adv = 1
              /\ s.calls = [k \in 1..(Len(tok) - 1) |-> << <<tok[k + 1]>>, TrueStr >>]
              /\ \A k \in 2..Len(tok) :
                   <<tok[k]>> \in DOMAIN s.after /\ s.after[<<tok[k]>>] = TrueStr
  /\ Done => \A k \in 1..Len(argv) : CombinedShortTok(argv[k]) => (k - 1) \in Visited2
  /\ (Done /\ argv = << <<"-", "a", "b">>, <<"a">> >>) =>
        result = [command |-> <<"a">>, params |-> (<<"a">> :> TrueStr) @@ (<<"b">> :> TrueStr)]

\* A combined short flag was followed by a Bare token, which became the command.
C7_Witness ==
  /\ Done
  /\ commandIndex >= 1
  /\ CombinedShortTok(argv[commandIndex])
  /\ ResultCommandIs(argv[commandIndex + 1])
  /\ <<"b">> \in DOMAIN params

----------------------------------------------------------------------------
\* C8: a key=value token visited by pass 2 as a scan position is split on its first
\* '=': setParam(key, value) is called once, with key the part before the first '='
\* less at most one leading '-' or '--', and value everything after the first '='
\* (possibly empty, possibly containing '='); the scan advances by exactly 1, the
\* next position being the following token.
C8_KeyValueSplitsOnFirstEq ==
  \A n \in DOMAIN scan2 :
    LET s   == scan2[n]
        tok == argv[s.at + 1]
    IN  KeyValueTok(tok) =>
           /\ s.adv = 1
           /\ s.calls = << <<Unprefixed(BeforeEq(tok)), AfterEq(tok)>> >>
           /\ Entered(s.after, Unprefixed(BeforeEq(tok)), AfterEq(tok))
           /\ n < Len(scan2) => scan2[n + 1].at = s.at + 1

\* A key=value token whose value itself contains '=' was bound, and one with an
\* empty value, each followed by another token.
C8_Witness ==
  /\ Done
  /\ Len(argv) = 3
  /\ argv[1] = <<"a", "=", "b", "=", "a">>
  /\ argv[2] = <<"a", "=">>
  /\ Visited2 = {0, 1, 2}

----------------------------------------------------------------------------
\* C9: key=value takes precedence over flag in both passes.  A token that contains
\* '=' and starts with '-' is never the command; pass 1, visiting it, advances by 1
\* (it takes no value); pass 2 visits it, advances by 1, and makes the single call
\* setParam(key, text after the first '='): no value from the next token, no
\* expansion character by character, no "true".
C9_KeyValueBeforeFlag ==
  \A k \in 1..Len(argv) :
    (KeyValueTok(argv[k]) /\ DashTok(argv[k])) =>
       /\ commandIndex # k - 1
       /\ \A n \in DOMAIN scan1 :
            scan1[n].at = k - 1 =>
               /\ scan1[n].adv = 1
               /\ n < Len(scan1) => scan1[n + 1].at = k
       /\ \A n \in DOMAIN scan2 :
            scan2[n].at = k - 1 =>
               /\ scan2[n].adv = 1
               /\ Len(scan2[n].calls) = 1
               /\ scan2[n].calls[1][2] = AfterEq(argv[k])
               /\ scan2[n].calls[1][2] # TrueStr
       /\ Done => (k - 1) \in Visited2

\* A dashed key=value token shaped like a combined short flag ("-ab=a") was
\* followed by a Bare token, which became the command.
C9_Witness ==
  /\ Done
  /\ Len(argv) = 2
  /\ argv[1] = <<"-", "a", "b", "=", "a">>
  /\ ResultCommandIs(argv[2])
  /\ result.params = (<<"a", "b">> :> <<"a">>)

----------------------------------------------------------------------------
\* C10: params never has the empty string as a key: a setParam call with an empty
\* key ("-", "--", "=a", "--=a") inserts nothing, and ["-", "--"] returns neither
\* command nor params.
C10_NoEmptyKey ==
  /\ <<>> \notin DOMAIN params
  /\ \A n \in DOMAIN scan2 :
       /\ <<>> \notin DOMAIN scan2[n].after
       /\ (\A c \in DOMAIN scan2[n].calls : scan2[n].calls[c][1] = <<>>) =>
             scan2[n].after = ParamsBefore(n)
  /\ (Done /\ "params" \in DOMAIN result) => <<>> \notin DOMAIN result.params
  /\ (Done /\ argv = << <<"-">>, <<"-", "-">> >>) => DOMAIN result = {}

\* Every token stripped to an empty key, flags and key=value alike, and nothing
\* was returned.
C10_Witness ==
  /\ Done
  /\ Len(argv) = 3
  /\ \A n \in DOMAIN scan2 : scan2[n].calls # <<>> /\ scan2[n].calls[1][1] = <<>>
  /\ {"keyeqval", "flag"} \subseteq {scan2[n].branch : n \in DOMAIN scan2}
  /\ DOMAIN result = {}

----------------------------------------------------------------------------
\* The setParam calls pass 2 made up to and including its n-th step, in order.
RECURSIVE CallsUpTo(_)
CallsUpTo(n) == IF n = 0 THEN <<>> ELSE CallsUpTo(n - 1) \o scan2[n].calls

AllCalls == CallsUpTo(Len(scan2))

\* The value of the last call in cs that binds key; only used where there is one.
LastBound(cs, key) ==
  cs[CHOOSE c \in DOMAIN cs :
       cs[c][1] = key /\ \A d \in DOMAIN cs : (d > c => cs[d][1] # key)][2]

\* C11: duplicate keys are resolved last-write-wins, whatever the forms of the tokens
\* that bind them: params holds exactly the non-empty keys bound so far, each with the
\* value of the last setParam call for it in pass 2 scan order.
C11_LastWriteWins ==
  /\ DOMAIN params = { AllCalls[c][1] : c \in DOMAIN AllCalls } \ { <<>> }
  /\ \A key \in DOMAIN params : params[key] = LastBound(AllCalls, key)
  /\ (Done /\ "params" \in DOMAIN result) => result.params = params

\* A key was bound twice, by tokens of different forms and to different values.
C11_Witness ==
  /\ Done
  /\ \E m, n \in DOMAIN scan2 :
       /\ m < n
       /\ scan2[m].branch # scan2[n].branch
       /\ \E c \in DOMAIN scan2[m].calls, d \in DOMAIN scan2[n].calls :
            /\ scan2[m].calls[c][1] = scan2[n].calls[d][1]
            /\ scan2[m].calls[c][1] # <<>>
            /\ scan2[m].calls[c][2] # scan2[n].calls[d][2]
            /\ result.params[scan2[n].calls[d][1]] = scan2[n].calls[d][2]

----------------------------------------------------------------------------
\* C12: the result omits empty fields: it has a params field only if the mapping has
\* at least one entry, and a command field only if the command is a non-empty string;
\* it has no other field.
C12_EmptyFieldsOmitted ==
  Done =>
    /\ DOMAIN result \subseteq {"command", "params"}
    /\ "params" \in DOMAIN result => DOMAIN result.params # {}
    /\ "command" \in DOMAIN result => result.command # <<>>

\* Pass 1 chose the empty string as the command and nothing was bound: the result
\* is empty.
C12_Witness ==
  /\ Done
  /\ commandIndex # Undefined
  /\ command = << <<>> >>
  /\ DOMAIN params = {}
  /\ DOMAIN result = {}

----------------------------------------------------------------------------
\* C13: parseArgs is total: from every state of a call short of its return a step of
\* the function is possible (no input leaves it without a branch to take), the value
\* returned is a result record, and for the empty sequence it has neither field.
C13_Total ==
  /\ ~Done => ENABLED Next
  /\ Done => DOMAIN result \subseteq {"command", "params"}
  /\ (Done /\ argv = <<>>) => DOMAIN result = {}

\* A call on only "-", "--" and "" tokens returned.
C13_Witness ==
  /\ Done
  /\ Len(argv) = 3
  /\ {argv[k] : k \in 1..3} = { <<>>, <<"-">>, <<"-", "-">> }

----------------------------------------------------------------------------
\* C14 (as stated): an empty string after a flag or a Bare key is an existing next
\* token that does not start with '-': pass 1 takes it as the value (advance by 2) and
\* pass 2 binds the key to the empty string, advancing by 2; ["--a", ""] gives
\* params {a: ""}.
C14_AsStated ==
  /\ \A n \in DOMAIN scan1 :
       LET s == scan1[n]
       IN  ( /\ SimpleFlagTok(argv[s.at + 1]) \/ BareTok(argv[s.at + 1])
             /\ s.at + 1 < Len(argv)
             /\ argv[s.at + 2] = <<>> ) =>
              (s.adv = 2 /\ commandIndex # s.at + 1)
  /\ \A n \in DOMAIN scan2 :
       LET s == scan2[n]
       IN  ( /\ s.at # commandIndex
             /\ SimpleFlagTok(argv[s.at + 1]) \/ BareTok(argv[s.at + 1])
             /\ s.at + 1 < Len(argv)
             /\ argv[s.at + 2] = <<>> ) =>
              (s.adv = 2 /\ s.calls = << <<Unprefixed(argv[s.at + 1]), <<>> >> >>)
  /\ (Done /\ argv = << <<"-", "-", "a">>, <<>> >>) => result = [params |-> (<<"a">> :> <<>>)]

----------------------------------------------------------------------------
\* C15: both passes terminate: in each pass every step but the break that ends
\* pass 1 advances the scan index by 1 or 2, the positions visited are strictly
\* increasing (each index is a scan position at most once per pass), the index never
\* passes the end by more than one, and a step reads only the token at its position
\* and the one immediately after it.
C15_ScansAdvance ==
  /\ j <= Len(argv) + 1
  /\ i <= Len(argv) + 1
  /\ Len(scan1) <= Len(argv)
  /\ Len(scan2) <= Len(argv)
  /\ \A n \in DOMAIN scan1 :
       /\ scan1[n].at < Len(argv)
       /\ scan1[n].reads \subseteq {scan1[n].at, scan1[n].at + 1}
       /\ scan1[n].adv \in {1, 2} \/ (n = Len(scan1) /\ commandIndex = scan1[n].at)
       /\ n < Len(scan1) => scan1[n + 1].at = scan1[n].at + scan1[n].adv
       /\ (n = Len(scan1) /\ commandIndex = Undefined) => j = scan1[n].at + scan1[n].adv
  /\ \A n \in DOMAIN scan2 :
       /\ scan2[n].at < Len(argv)
       /\ scan2[n].reads \subseteq {scan2[n].at, scan2[n].at + 1}
       /\ scan2[n].adv \in {1, 2}
       /\ n < Len(scan2) => scan2[n + 1].at = scan2[n].at + scan2[n].adv
       /\ n = Len(scan2) => i = scan2[n].at + scan2[n].adv
  /\ (scan1 # <<>> => scan1[1].at = 0) /\ (scan2 # <<>> => scan2[1].at = 0)

\* Both passes ran to the end of a full-length argv, pass 2 past a skipped command.
C15_Witness ==
  /\ Done
  /\ Len(argv) = MaxArgs
  /\ commandIndex = MaxArgs - 1
  /\ i = Len(argv)
  /\ \E n \in DOMAIN scan2 : scan2[n].adv = 2

----------------------------------------------------------------------------
\* C17: parseArgs leaves its input unchanged: at every step of the call, and at its
\* return, argv has the length and the tokens it was passed with.
C17_InputUnchanged ==
  /\ Len(argv) = Len(input)
  /\ \A k \in 1..Len(input) : argv[k] = input[k]

\* A call that found a command and bound parameters has returned.
C17_Witness ==
  /\ Done
  /\ Len(input) = MaxArgs
  /\ commandIndex # Undefined
  /\ DOMAIN result = {"command", "params"}

----------------------------------------------------------------------------
\* C16: parseArgs is deterministic and keeps no state between calls: a call on the
\* token sequence the first call was given returns the result the first call
\* returned, whatever calls on other sequences were made in between.
C16_SameInputSameResult ==
  (Done /\ first # <<>> /\ argv = first[1].argv) => result = first[1].result

\* The third call repeated the first, which had returned a command and params.
C16_Witness ==
  /\ Done
  /\ invocations = 3
  /\ first # <<>>
  /\ argv = first[1].argv
  /\ DOMAIN result = {"command", "params"}

----------------------------------------------------------------------------
(* AgentBoost (src/index.ts): register, emit('detect'), emit('compile') called in   *)
(* any order, one call at a time, then run(argv).  A plugin is any implementation   *)
(* of PluginLifecycle: what its detect() returns is the environment's choice at     *)
(* each call.  Each await of a plugin's promise is a step.                          *)

\* The plugin classes that may be registered, known by their names "1", "2", ...
MaxPlugins == 3

PluginNames == { ToString(k) : k \in 1..MaxPlugins }

\* What a plugin's compile() resolves to, a string as a sequence of characters:
\* '' for plugin "1" (as ReactPlugin.compile), a heading for the others.
Fragment(name) == IF name = "1" THEN <<>> ELSE <<"#", name>>

InitTok == <<"i", "n", "i", "t">>

\* join(this.cwd, 'AGENTS.md')
AgentsPath == "cwd/AGENTS.md"

\* The argv run is called with.
RunArgvs ==
  { <<>>,
    << InitTok >>,
    << <<"a">> >>,
    << InitTok, <<"-", "-", "a">> >>,
    << <<"a">>, InitTok >>,
    << <<"-", "a", "b">>, <<"a", "=">>, InitTok >> }

Range(q) == { q[n] : n \in DOMAIN q }

\* compiled.join('\n')
RECURSIVE joinLines(_)
joinLines(frags) ==
  IF frags = <<>> THEN <<>>
  ELSE IF Len(frags) = 1 THEN frags[1]
  ELSE frags[1] \o <<"\n">> \o joinLines(Tail(frags))

\* Mutant: run has no default for a missing command.
commandOrInit_NoDefault(res) == IF "command" \in DOMAIN res THEN res.command ELSE <<>>

\* const { command = 'init', params } = parseArgs(argv)
commandOrInit(res) == IF "command" \in DOMAIN res THEN res.command ELSE InitTok

Event(ev, arg, content) == [ev |-> ev, arg |-> arg, content |-> content]

parseVars == <<argv, pc, j, commandIndex, command, i, params, result, scan1, scan2,
               input, invocations, first>>

runVars == <<runPc, runCommand, runTrace, fileState, agentsMd>>

InitBoost ==
  /\ argv = <<>>
  /\ pc = "idle"
  /\ j = 0
  /\ i = 0
  /\ commandIndex = Undefined
  /\ command = <<>>
  /\ params = <<>>
  /\ result = <<>>
  /\ scan1 = <<>>
  /\ scan2 = <<>>
  /\ input = <<>>
  /\ invocations = 0
  /\ first = <<>>
  /\ BoostNew
  /\ ToolsIdle

\* No call on the instance is under way, and run has not been called.
Idle == runPc = "idle" /\ emitting = "none"

\* register(PluginClass): this.plugins.set(plugin.name, plugin).  Setting a key the
\* map has keeps the key's place in the iteration order.
Register ==
  /\ Idle
  /\ \E name \in PluginNames :
       plugins' = IF name \in Range(plugins) THEN plugins ELSE Append(plugins, name)
  /\ UNCHANGED <<detected, emitting, cursor, detectCalls, compileCalls, compiled, emitted,
                 everTrue, runVars, parseVars,
                 toolVars>>

\* emit('detect') is called.
EmitDetect ==
  /\ Idle
  /\ emitting' = "detect"
  /\ cursor' = 0
  /\ detectCalls' = <<>>
  /\ UNCHANGED <<plugins, detected, compileCalls, compiled, emitted, everTrue, runVars,
                 parseVars, toolVars>>

\* !this.detected.has(plugin.name) is false: detect() is not called.
DetectSkip ==
  /\ emitting = "detect"
  /\ cursor < Len(plugins)
  /\ plugins[cursor + 1] \in Range(detected)
  /\ cursor' = cursor + 1
  /\ UNCHANGED <<plugins, detected, emitting, detectCalls, compileCalls, compiled, emitted,
                 everTrue, runVars, parseVars,
                 toolVars>>

\* Mutant: the plugin is added to the detected set whatever detect() returned.
DetectCall_IgnoresResult ==
  /\ emitting = "detect"
  /\ cursor < Len(plugins)
  /\ plugins[cursor + 1] \notin Range(detected)
  /\ \E ret \in BOOLEAN :
       /\ detectCalls' = Append(detectCalls, [name |-> plugins[cursor + 1], ret |-> ret])
       /\ detected' = Append(detected, plugins[cursor + 1])
       /\ everTrue' = IF ret THEN everTrue \cup {plugins[cursor + 1]} ELSE everTrue
  /\ cursor' = cursor + 1
  /\ UNCHANGED <<plugins, emitting, compileCalls, compiled, emitted, runVars, parseVars,
                 toolVars>>

\* Mutant: detect() is called again on a plugin that is already detected.
DetectCall_NoHasCheck ==
  /\ emitting = "detect"
  /\ cursor < Len(plugins)
  /\ \E ret \in BOOLEAN :
       /\ detectCalls' = Append(detectCalls, [name |-> plugins[cursor + 1], ret |-> ret])
       /\ detected' = IF ret /\ plugins[cursor + 1] \notin Range(detected)
                      THEN Append(detected, plugins[cursor + 1]) ELSE detected
       /\ everTrue' = IF ret THEN everTrue \cup {plugins[cursor + 1]} ELSE everTrue
  /\ cursor' = cursor + 1
  /\ UNCHANGED <<plugins, emitting, compileCalls, compiled, emitted, runVars, parseVars,
                 toolVars>>

\* await plugin.detect(), then this.detected.add(plugin.name) if it returned true.
DetectCall ==
  /\ emitting = "detect"
  /\ cursor < Len(plugins)
  /\ plugins[cursor + 1] \notin Range(detected)
  /\ \E ret \in BOOLEAN :
       /\ detectCalls' = Append(detectCalls, [name |-> plugins[cursor + 1], ret |-> ret])
       /\ detected' = IF ret THEN Append(detected, plugins[cursor + 1]) ELSE detected
       /\ everTrue' = IF ret THEN everTrue \cup {plugins[cursor + 1]} ELSE everTrue
  /\ cursor' = cursor + 1
  /\ UNCHANGED <<plugins, emitting, compileCalls, compiled, emitted, runVars, parseVars,
                 toolVars>>

\* The loop over this.plugins.values() ends; emit('detect') resolves.
DetectEnd ==
  /\ emitting = "detect"
  /\ cursor >= Len(plugins)
  /\ emitting' = "none"
  /\ runTrace' = IF runPc = "detect"
                 THEN Append(runTrace, Event("emit", "detect resolved", <<>>))
                 ELSE runTrace
  /\ UNCHANGED <<plugins, detected, cursor, detectCalls, compileCalls, compiled, emitted,
                 everTrue, runPc, runCommand, fileState, agentsMd, parseVars, toolVars>>

\* emit('compile') is called.
EmitCompile ==
  /\ Idle
  /\ emitting' = "compile"
  /\ cursor' = 0
  /\ compileCalls' = <<>>
  /\ compiled' = <<>>
  /\ UNCHANGED <<plugins, detected, detectCalls, emitted, everTrue, runVars, parseVars,
                 toolVars>>

\* for (const pluginName of this.detected): compiled.push(await plugin.compile())
\* if this.plugins.get(pluginName) is there.
CompileCall ==
  /\ emitting = "compile"
  /\ cursor < Len(detected)
  /\ IF detected[cursor + 1] \in Range(plugins)
     THEN /\ compileCalls' = Append(compileCalls, detected[cursor + 1])
          /\ compiled' = Append(compiled, Fragment(detected[cursor + 1]))
     ELSE UNCHANGED <<compileCalls, compiled>>
  /\ cursor' = cursor + 1
  /\ UNCHANGED <<plugins, detected, emitting, detectCalls, emitted, everTrue, runVars,
                 parseVars, toolVars>>

\* return compiled.join('\n')
CompileEnd ==
  /\ emitting = "compile"
  /\ cursor >= Len(detected)
  /\ emitted' = joinLines(compiled)
  /\ emitting' = "none"
  /\ runTrace' = IF runPc = "compile"
                 THEN Append(runTrace, Event("emit", "compile resolved", joinLines(compiled)))
                 ELSE runTrace
  /\ UNCHANGED <<plugins, detected, cursor, detectCalls, compileCalls, compiled, everTrue,
                 runPc, runCommand, fileState, agentsMd, parseVars, toolVars>>

\* run(argv) is called; it calls parseArgs(argv).
RunBegin ==
  /\ Idle
  /\ \E a \in RunArgvs : argv' = a /\ input' = a
  /\ invocations' = invocations + 1
  /\ pc' = "start"
  /\ runPc' = "parse"
  /\ UNCHANGED <<j, commandIndex, command, i, params, result, scan1, scan2, first,
                 plugins, detected, emitting, cursor, detectCalls, compileCalls, compiled,
                 emitted, everTrue, runCommand, runTrace, fileState, agentsMd,
                 toolVars>>

\* Mutant: run dispatches on the command before detecting.
RunParsed_DispatchFirst ==
  /\ runPc = "parse"
  /\ pc = "done"
  /\ runCommand' = commandOrInit(result)
  /\ IF commandOrInit(result) = InitTok
     THEN /\ runTrace' = << Event("log", "Detecting project structure...", <<>>),
                           Event("emit", "detect", <<>>) >>
          /\ emitting' = "detect"
          /\ cursor' = 0
          /\ detectCalls' = <<>>
     ELSE /\ runTrace' = <<>>
          /\ UNCHANGED <<emitting, cursor, detectCalls>>
  /\ runPc' = "detect"
  /\ UNCHANGED <<plugins, detected, compileCalls, compiled, emitted, everTrue, fileState,
                 agentsMd, parseVars, toolVars>>

\* parseArgs returned: the command is defaulted, the banner is logged and
\* await this.emit('detect') begins.
RunParsed ==
  /\ runPc = "parse"
  /\ pc = "done"
  /\ runCommand' = commandOrInit(result)
  /\ runTrace' = << Event("log", "Detecting project structure...", <<>>),
                    Event("emit", "detect", <<>>) >>
  /\ emitting' = "detect"
  /\ cursor' = 0
  /\ detectCalls' = <<>>
  /\ runPc' = "detect"
  /\ UNCHANGED <<plugins, detected, compileCalls, compiled, emitted, everTrue, fileState,
                 agentsMd, parseVars, toolVars>>

\* case 'init': await this.emit('compile') begins.
RunInit ==
  /\ runPc = "detect"
  /\ emitting = "none"
  /\ runCommand = InitTok
  /\ emitting' = "compile"
  /\ cursor' = 0
  /\ compileCalls' = <<>>
  /\ compiled' = <<>>
  /\ runTrace' = Append(runTrace, Event("emit", "compile", <<>>))
  /\ runPc' = "compile"
  /\ UNCHANGED <<plugins, detected, detectCalls, emitted, everTrue, runCommand, fileState,
                 agentsMd, parseVars, toolVars>>

\* writeFile(join(this.cwd, 'AGENTS.md'), agentsFile || '', 'utf-8') is called and not
\* awaited; the success message is logged; run resolves.
RunWrite ==
  /\ runPc = "compile"
  /\ emitting = "none"
  /\ runTrace' = runTrace \o << Event("writeFile", AgentsPath, emitted),
                               Event("log", "Generated AGENTS.md successfully!", <<>>) >>
  /\ fileState' = "pending"
  /\ runPc' = "resolved"
  /\ UNCHANGED <<plugins, detected, emitting, cursor, detectCalls, compileCalls, compiled,
                 emitted, everTrue, runCommand, agentsMd, parseVars, toolVars>>

\* default: console.error(`Unknown command: ${command}`); process.exit(1)
RunUnknown ==
  /\ runPc = "detect"
  /\ emitting = "none"
  /\ runCommand # InitTok
  /\ runTrace' = runTrace \o << Event("error", "Unknown command", runCommand),
                               Event("exit", "1", <<>>) >>
  /\ runPc' = "exited"
  /\ UNCHANGED <<plugins, detected, emitting, cursor, detectCalls, compileCalls, compiled,
                 emitted, everTrue, runCommand, fileState, agentsMd, parseVars, toolVars>>

\* The content the pending writeFile call was given.
PendingContent ==
  runTrace[CHOOSE n \in DOMAIN runTrace : runTrace[n].ev = "writeFile"].content

\* The write started by run completes.
WriteCompletes ==
  /\ fileState = "pending"
  /\ fileState' = "written"
  /\ agentsMd' = PendingContent
  /\ runTrace' = Append(runTrace, Event("written", AgentsPath, PendingContent))
  /\ UNCHANGED <<plugins, detected, emitting, cursor, detectCalls, compileCalls, compiled,
                 emitted, everTrue, runPc, runCommand, parseVars, toolVars>>

\* The write started by run fails; nothing handles the rejection.
WriteFails ==
  /\ fileState = "pending"
  /\ fileState' = "failed"
  /\ runTrace' = Append(runTrace, Event("write failed", AgentsPath, <<>>))
  /\ UNCHANGED <<plugins, detected, emitting, cursor, detectCalls, compileCalls, compiled,
                 emitted, everTrue, runPc, runCommand, agentsMd, parseVars, toolVars>>

NextBoost ==
  \/ Register
  \/ EmitDetect
  \/ DetectSkip
  \/ DetectCall
  \/ DetectEnd
  \/ EmitCompile
  \/ CompileCall
  \/ CompileEnd
  \/ RunBegin
  \/ Next
  \/ RunParsed
  \/ RunInit
  \/ RunWrite
  \/ RunUnknown
  \/ WriteCompletes
  \/ WriteFails

SpecBoost == InitBoost /\ [][NextBoost]_vars

----------------------------------------------------------------------------
(* Claims about AgentBoost, checked under SpecBoost.                                *)

\* The place of a registered plugin in the order of registration.
RegIndex(name) == CHOOSE n \in DOMAIN plugins : plugins[n] = name

InRegistrationOrder(names) ==
  \A a, b \in DOMAIN names : a < b => RegIndex(names[a]) < RegIndex(names[b])

\* The fragments of the named plugins, one per line.
RECURSIVE FragmentLines(_)
FragmentLines(names) ==
  IF names = <<>> THEN <<>>
  ELSE LET rest == FragmentLines(Tail(names))
       IN  IF Len(names) = 1 THEN Fragment(names[1])
           ELSE Fragment(names[1]) \o <<"\n">> \o rest

\* C18: a plugin's compile() is invoked only if an earlier emit('detect') invoked its
\* detect() and got true; a plugin whose detect() has only ever returned false is
\* neither in the detected set nor compiled.
C18_CompileOnlyDetected ==
  /\ \A n \in DOMAIN compileCalls : compileCalls[n] \in everTrue
  /\ \A n \in DOMAIN detected : detected[n] \in everTrue
  /\ \A n \in DOMAIN detectCalls :
       (~detectCalls[n].ret /\ detectCalls[n].name \notin everTrue)
         => /\ detectCalls[n].name \notin Range(detected)
            /\ detectCalls[n].name \notin Range(compileCalls)

\* An emit('compile') has compiled a plugin while another registered plugin, whose
\* detect() was called and returned false, was left out.
C18_Witness ==
  /\ emitting = "none"
  /\ compileCalls # <<>>
  /\ \E n \in DOMAIN detectCalls :
       /\ ~detectCalls[n].ret
       /\ detectCalls[n].name \notin Range(compileCalls)

\* C19: emit('detect') invokes detect() in registration order, and emit('compile')
\* invokes compile() on the detected plugins in registration order and joins their
\* fragments in that order.
C19_AsStated ==
  /\ InRegistrationOrder([n \in DOMAIN detectCalls |-> detectCalls[n].name])
  /\ InRegistrationOrder(compileCalls)
  /\ emitting # "compile" => emitted = FragmentLines(compileCalls)

\* C20: run emits 'detect' before 'compile'; when parseArgs returns no command the
\* command is "init"; for "init" the detected plugins' fragments, joined with
\* newlines, are what is written to AGENTS.md under cwd.
C20_RunInit ==
  /\ \A n \in DOMAIN runTrace :
       (runTrace[n].ev = "emit" /\ runTrace[n].arg = "compile")
         => \E m \in 1..(n - 1) :
              runTrace[m].ev = "emit" /\ runTrace[m].arg = "detect resolved"
  /\ (runPc \notin {"idle", "parse"} /\ "command" \notin DOMAIN result)
       => runCommand = InitTok
  /\ (runPc \in {"detect", "compile", "resolved"} /\ runCommand = InitTok)
       => runPc # "exited"
  /\ (runPc \in {"resolved", "exited"} /\ runCommand = InitTok)
       => /\ runPc = "resolved"
          /\ \E n \in DOMAIN runTrace :
               /\ runTrace[n].ev = "writeFile"
               /\ runTrace[n].arg = AgentsPath
               /\ runTrace[n].content = FragmentLines(detected)
  /\ fileState = "written" => agentsMd = FragmentLines(detected)

\* run was given no command, two plugins were detected, and AGENTS.md holds their
\* two fragments on two lines.
C20_Witness ==
  /\ fileState = "written"
  /\ "command" \notin DOMAIN result
  /\ Len(detected) >= 2
  /\ \E n \in DOMAIN agentsMd : agentsMd[n] = "\n"

----------------------------------------------------------------------------
\* The number of dash characters t begins with.
LeadingDashes(t) ==
  CHOOSE k \in 0..Len(t) : (\A m \in 1..k : t[m] = "-") /\ (k = Len(t) \/ t[k + 1] # "-")

\* t less its first one or two dashes: two when it begins with two or more.
LessPrefix(t) ==
  SubSeq(t, (IF LeadingDashes(t) >= 2 THEN 2 ELSE LeadingDashes(t)) + 1, Len(t))

\* C24: in pass 2 the key of a flag token, and of the left part of a key=value token,
\* is the text less exactly one leading '-' or '--' (at most two dashes).  With three
\* or more leading dashes the key keeps the dashes beyond the second ("---a" gives
\* "-a", "---a=b" gives "-a"), and that key, being non-empty, is entered in params.
C24_StripsAtMostTwoDashes ==
  \A n \in DOMAIN scan2 :
    LET s   == scan2[n]
        tok == argv[s.at + 1]
        raw == IF KeyValueTok(tok) THEN BeforeEq(tok) ELSE tok
    IN  (s.at # commandIndex /\ (KeyValueTok(tok) \/ SimpleFlagTok(tok))) =>
           /\ Len(s.calls) = 1
           /\ s.calls[1][1] = LessPrefix(raw)
           /\ LeadingDashes(raw) >= 3 =>
                /\ Len(s.calls[1][1]) = Len(raw) - 2
                /\ s.calls[1][1][1] = "-"
                /\ s.calls[1][1] \in DOMAIN s.after
                /\ s.after[s.calls[1][1]] = s.calls[1][2]

\* "---a=b" was parsed as key=value and "---a" as a flag, and params holds key "-a".
C24_Witness ==
  /\ Done
  /\ \E n, m \in DOMAIN scan2 :
       /\ scan2[n].branch = "keyeqval"
       /\ argv[scan2[n].at + 1] = <<"-", "-", "-", "a", "=", "b">>
       /\ scan2[m].branch = "flag"
       /\ argv[scan2[m].at + 1] = <<"-", "-", "-", "a">>
  /\ <<"-", "a">> \in DOMAIN params

----------------------------------------------------------------------------
\* Pass 1 came to an empty-string token with no plain value after it, having found no
\* candidate before: the empty string is the first command candidate.
EmptyCandidate ==
  \E n \in DOMAIN scan1 :
    /\ argv[scan1[n].at + 1] = <<>>
    /\ ~PlainValueAfter(scan1[n].at)
    /\ \A m \in 1..(n - 1) : scan1[m].branch # "candidate"

\* C25: if the first command candidate pass 1 finds is the empty-string token, pass 1
\* stops there, the result has no command field, pass 2 skips that index making no
\* setParam call, and no later token becomes the command, even a later Bare token
\* that stands alone.
C25_EmptyCandidate ==
  EmptyCandidate =>
    /\ scan1[Len(scan1)].branch = "candidate"
    /\ commandIndex = scan1[Len(scan1)].at
    /\ argv[commandIndex + 1] = <<>>
    /\ \A n \in DOMAIN scan2 :
         scan2[n].at = commandIndex =>
           /\ scan2[n].branch = "command"
           /\ scan2[n].calls = <<>>
           /\ scan2[n].adv = 1
           /\ scan2[n].after = ParamsBefore(n)
    /\ \A n \in DOMAIN scan2 : scan2[n].at < commandIndex => scan2[n].at + scan2[n].adv <= commandIndex
    /\ Done => /\ "command" \notin DOMAIN result
               /\ commandIndex \in Visited2

\* The empty string at index 0 was the candidate; a Bare token at index 2 stood alone
\* in pass 2 (bound to "true") and the result has no command.
C25_Witness ==
  /\ Done
  /\ Len(argv) = 3
  /\ argv[1] = <<>>
  /\ commandIndex = 0
  /\ BareTok(argv[3]) /\ NonEmptyTok(argv[3])
  /\ \E n \in DOMAIN scan2 :
       scan2[n].at = 2 /\ scan2[n].branch = "bare" /\ scan2[n].adv = 1
  /\ "command" \notin DOMAIN result

----------------------------------------------------------------------------
\* C26: if the result has a command, the command is the input token at some index,
\* is non-empty, does not start with '-' and contains no '='.
C26_CommandIsPlainInputToken ==
  (Done /\ "command" \in DOMAIN result) =>
    /\ \E k \in DOMAIN input : input[k] = result.command
    /\ NonEmptyTok(result.command)
    /\ ~DashTok(result.command)
    /\ ~KeyValueTok(result.command)

\* A command was returned from an argv that also holds a token beginning with '=' and
\* a token beginning with '-'.
C26_Witness ==
  /\ Done
  /\ "command" \in DOMAIN result
  /\ \E k \in DOMAIN input : input[k] # <<>> /\ input[k][1] = "="
  /\ \E k \in DOMAIN input : DashTok(input[k])

----------------------------------------------------------------------------
\* What a value in params may be, given the input tokens.
AllowedValue(v) ==
  \/ v = <<"t", "r", "u", "e">>
  \/ \E k \in DOMAIN input : input[k] = v /\ NonEmptyTok(v) /\ ~DashTok(v)
  \/ \E k \in DOMAIN input : KeyValueTok(input[k]) /\ v = AfterEq(input[k])

\* C27: every value in params, at every point of pass 2 and in the result, is the
\* string "true", or the full text of an input token that is non-empty and does not
\* start with '-', or the text after the first '=' of an input key=value token.
C27_ValuesComeFromInput ==
  /\ \A key \in DOMAIN params : AllowedValue(params[key])
  /\ \A n \in DOMAIN scan2 : \A c \in DOMAIN scan2[n].calls : AllowedValue(scan2[n].calls[c][2])
  /\ (Done /\ "params" \in DOMAIN result) =>
       \A key \in DOMAIN result.params : AllowedValue(result.params[key])

\* The result binds one key to the empty text after an '=' and another to the full
\* text of a following token.
C27_Witness ==
  /\ Done
  /\ "params" \in DOMAIN result
  /\ \E k1, k2 \in DOMAIN result.params :
       /\ result.params[k1] = <<>>
       /\ result.params[k2] \notin {<<>>, <<"t", "r", "u", "e">>}
       /\ \E k \in DOMAIN input : input[k] = result.params[k2]

----------------------------------------------------------------------------
\* C28: the detected set only grows.  In every step the detected set keeps the names
\* it had; a detect() call made in the step is on a plugin that was not in the set;
\* and every name in the set is the name of a registered plugin.
C28_DetectedOnlyGrows ==
  [][ /\ Range(detected) \subseteq Range(detected')
      /\ (Len(detectCalls') = Len(detectCalls) + 1)
           => detectCalls'[Len(detectCalls')].name \notin Range(detected)
      /\ Range(detected') \subseteq Range(plugins')
      /\ Range(plugins) \subseteq Range(plugins') ]_vars

\* A later emit('detect') passed over a detected plugin and called detect() on another.
C28_Witness ==
  /\ emitting = "detect"
  /\ cursor = Len(plugins)
  /\ Len(plugins) >= 2
  /\ Len(detectCalls) >= 1
  /\ Len(detectCalls) < Len(plugins)
  /\ \E n \in DOMAIN plugins :
       /\ plugins[n] \in Range(detected)
       /\ \A m \in DOMAIN detectCalls : detectCalls[m].name # plugins[n]

----------------------------------------------------------------------------
\* The place of the first event of the kind in run's trace, 0 if there is none.
FirstEvent(ev, arg) ==
  IF \E n \in DOMAIN runTrace : runTrace[n].ev = ev /\ runTrace[n].arg = arg
  THEN CHOOSE n \in DOMAIN runTrace :
         /\ runTrace[n].ev = ev /\ runTrace[n].arg = arg
         /\ \A m \in 1..(n - 1) : ~(runTrace[m].ev = ev /\ runTrace[m].arg = arg)
  ELSE 0

\* run has the result of parseArgs, and its command is not "init".
RunHasOtherCommand ==
  /\ runPc \notin {"idle", "parse"}
  /\ "command" \in DOMAIN result
  /\ result.command # <<"i", "n", "i", "t">>

\* C29: when parseArgs returns a command other than "init", run reports
\* 'Unknown command' and exits with status 1; it never emits 'compile' and never
\* writes AGENTS.md; and the report comes only after emit('detect') resolved, when
\* detect() of every registered plugin has been run by emit('detect') (in this emit,
\* or in an earlier one that detected the plugin).
C29_UnknownCommand ==
  RunHasOtherCommand =>
    /\ runCommand = result.command
    /\ runPc \in {"detect", "exited"}
    /\ FirstEvent("emit", "compile") = 0
    /\ FirstEvent("writeFile", AgentsPath) = 0
    /\ fileState = "none"
    /\ agentsMd = <<>>
    /\ (runPc = "detect" /\ emitting = "none") => ENABLED RunUnknown
    /\ FirstEvent("error", "Unknown command") # 0 =>
         /\ runPc = "exited"
         /\ FirstEvent("emit", "detect resolved") # 0
         /\ FirstEvent("emit", "detect resolved") < FirstEvent("error", "Unknown command")
         /\ runTrace[FirstEvent("error", "Unknown command")].content = result.command
         /\ FirstEvent("exit", "1") = FirstEvent("error", "Unknown command") + 1
         /\ \A n \in DOMAIN plugins :
              \/ \E m \in DOMAIN detectCalls : detectCalls[m].name = plugins[n]
              \/ plugins[n] \in everTrue
    /\ runPc = "exited" => FirstEvent("exit", "1") = Len(runTrace)

\* run exited on an unknown command after its detect emit called detect() on two
\* registered plugins, one of which was detected.
C29_Witness ==
  /\ runPc = "exited"
  /\ RunHasOtherCommand
  /\ Len(detectCalls) >= 2
  /\ detected # <<>>
  /\ \E m \in DOMAIN detectCalls : ~detectCalls[m].ret

----------------------------------------------------------------------------
\* C30: in run with command "init", the success message is logged, and run's promise
\* resolves, only after the write of AGENTS.md has completed successfully.
C30_AsStated ==
  /\ FirstEvent("log", "Generated AGENTS.md successfully!") # 0 =>
       /\ FirstEvent("written", AgentsPath) # 0
       /\ FirstEvent("written", AgentsPath) < FirstEvent("log", "Generated AGENTS.md successfully!")
  /\ runPc = "resolved" => fileState = "written" \/ FirstEvent("written", AgentsPath) # 0

----------------------------------------------------------------------------
(* The plugins' tools (src/tools) and NextJSPlugin (src/plugins/nextjs.ts).          *)
(*                                                                                  *)
(* JavaScript values are tagged records: undefined, null, a string (a sequence of   *)
(* pieces of text), a number, an object (a function from property names to values), *)
(* an array.  The text of a file is '' (empty), the JSON text of a value, or text    *)
(* that is not JSON.  A call is one step: nothing else runs on the instance between  *)
(* the awaits of one detect() or compile().                                          *)

JsNull == [t |-> "null"]

JsString(s) == [t |-> "string", s |-> s]

JsNumber(n) == [t |-> "number", n |-> n]

JsObject(f) == [t |-> "object", f |-> f]

JsArray(a) == [t |-> "array", a |-> a]

\* {}: no properties.
NoProps == [x \in {} |-> JsUndefined]

nullish(v) == v.t \in {"undefined", "null"}

\* v.key on a value that is not nullish: a missing property reads as undefined.
prop(v, key) == IF v.t = "object" /\ key \in DOMAIN v.f THEN v.f[key] ELSE JsUndefined

\* `${v}` in a template literal.
toText(v) ==
  IF v.t = "string" THEN v.s
  ELSE IF v.t = "undefined" THEN <<"undefined">>
  ELSE IF v.t = "null" THEN <<"null">>
  ELSE IF v.t = "number" THEN <<ToString(v.n)>>
  ELSE <<"[object Object]">>

\* Text that JSON.parse rejects, and the JSON text of a value.
NotJson == [kind |-> "malformed"]

Json(v) == [kind |-> "json", value |-> v]

\* A file holding the text.
File(text) == [k |-> "text", text |-> text]

\* The project directory.
Cwd == "/project"

\* fs.readFile(full, 'utf-8'): the file at the full path, Absent when it rejects.
readFS(full) ==
  IF full = <<Cwd, "/", "package.json">> THEN disk.package
  ELSE IF full = <<Cwd, "/", "notes.txt">> THEN disk.notes
  ELSE Absent

\* Mutant: a failing read is not caught.
readFileExecute_NoCatch(ctx, path) ==
  IF nullish(ctx) \/ nullish(prop(ctx, "insights"))
  THEN [threw |-> TRUE, ret |-> EmptyText]
  ELSE LET st == readFS(toText(prop(prop(ctx, "insights"), "cwd")) \o <<"/", path>>)
       IN  IF st.k = "text" THEN [threw |-> FALSE, ret |-> st.text]
           ELSE [threw |-> TRUE, ret |-> EmptyText]

\* readFile.execute({ path }) with this bound to ctx: the path is built and the file
\* read inside try; a TypeError on this.insights and a rejected read are both caught.
readFileExecute(ctx, path) ==
  IF nullish(ctx) \/ nullish(prop(ctx, "insights"))
  THEN [threw |-> FALSE, ret |-> EmptyText]
  ELSE LET st == readFS(toText(prop(prop(ctx, "insights"), "cwd")) \o <<"/", path>>)
       IN  IF st.k = "text" THEN [threw |-> FALSE, ret |-> st.text]
           ELSE [threw |-> FALSE, ret |-> EmptyText]

\* The objects a tool may be bound to: undefined, the { cwd } AgentBoost.register
\* constructs plugins with, an object with insights.cwd, an object with empty insights.
Contexts ==
  { JsUndefined,
    JsObject([cwd |-> JsString(<<Cwd>>)]),
    JsObject([insights |-> JsObject([cwd |-> JsString(<<Cwd>>)])]),
    JsObject([insights |-> JsObject(NoProps)]) }

\* The paths readFile.execute is called with.
Paths == {"package.json", "notes.txt", "nothing.txt"}

\* A call of readFile.execute on a tool bound to some context.
ReadFile ==
  /\ \E ctx \in Contexts, path \in Paths :
       called' = [op |-> "readFile", ctx |-> ctx, path |-> path,
                  threw |-> readFileExecute(ctx, path).threw,
                  ret |-> readFileExecute(ctx, path).ret, value |-> "",
                  lines |-> <<>>]
  /\ UNCHANGED <<disk, boostVars, parseVars>>


\* Literal texts, character by character.
Txt_3_4_0 == <<"3", ".", "4", ".", "0">>

Txt_app__ == <<"a", "p", "p", "/">>

Txt_app_page_tsx == <<"a", "p", "p", "/", "p", "a", "g", "e", ".", "t", "s", "x">>

Txt_caret14_2_0 == <<"^", "1", "4", ".", "2", ".", "0">>

Txt_dot_d_ts == <<".", "d", ".", "t", "s">>

Txt_dot_env == <<".", "e", "n", "v">>

Txt_dot_env_ == <<".", "e", "n", "v", ".">>

Txt_dot_env_local == <<".", "e", "n", "v", ".", "l", "o", "c", "a", "l">>

Txt_dot_ts == <<".", "t", "s">>

Txt_dot_tsx == <<".", "t", "s", "x">>

Txt_next_config_cjs == <<"n", "e", "x", "t", ".", "c", "o", "n", "f", "i", "g", ".", "c", "j", "s">>

Txt_next_config_js == <<"n", "e", "x", "t", ".", "c", "o", "n", "f", "i", "g", ".", "j", "s">>

Txt_next_config_mjs == <<"n", "e", "x", "t", ".", "c", "o", "n", "f", "i", "g", ".", "m", "j", "s">>

Txt_next_config_ts == <<"n", "e", "x", "t", ".", "c", "o", "n", "f", "i", "g", ".", "t", "s">>

Txt_pages__ == <<"p", "a", "g", "e", "s", "/">>

Txt_pages_index_js == <<"p", "a", "g", "e", "s", "/", "i", "n", "d", "e", "x", ".", "j", "s">>

Txt_pages_index_tsx == <<"p", "a", "g", "e", "s", "/", "i", "n", "d", "e", "x", ".", "t", "s", "x">>

Txt_src__env_d_ts == <<"s", "r", "c", "/", ".", "e", "n", "v", ".", "d", ".", "t", "s">>

Txt_tailwind_config_ == <<"t", "a", "i", "l", "w", "i", "n", "d", ".", "c", "o", "n", "f", "i", "g", ".">>

Txt_tailwind_config_js ==
  <<"t", "a", "i", "l", "w", "i", "n", "d", ".", "c", "o", "n", "f", "i", "g", ".", "j", "s">>

Txt_tilde14_0_0 == <<"~", "1", "4", ".", "0", ".", "0">>

Txt_tsconfig_json == <<"t", "s", "c", "o", "n", "f", "i", "g", ".", "j", "s", "o", "n">>

\* What is truthy: a non-empty string, a non-zero number, any object or array.
truthy(v) ==
  \/ v.t = "string" /\ v.s # <<>>
  \/ v.t = "number" /\ v.n # 0
  \/ v.t \in {"object", "array"}

\* v?.key
optProp(v, key) == IF nullish(v) THEN JsUndefined ELSE prop(v, key)

\* a || b
orElse(a, b) == IF truthy(a) THEN a ELSE b

\* JSON.parse(text): the value, or a SyntaxError (ok is FALSE).
JSONparse(text) ==
  IF text.kind = "json" THEN [ok |-> TRUE, value |-> text.value]
  ELSE [ok |-> FALSE, value |-> JsUndefined]

\* pkg?.dependencies?.next || pkg?.devDependencies?.next
nextVersion(pkg) ==
  orElse(optProp(optProp(pkg, "dependencies"), "next"),
         optProp(optProp(pkg, "devDependencies"), "next"))

\* s.replace(/^[~^]/, '')
cleanVersionOf(s) == IF s # <<>> /\ s[1] \in {"~", "^"} THEN Tail(s) ELSE s

\* detect() from the text readFile.execute returned: "true", "false", or "throws"
\* (version.replace is not a function when version is truthy and not a string).
detectFrom(pkgRaw) ==
  IF pkgRaw.kind = "empty" THEN "false"
  ELSE IF ~JSONparse(pkgRaw).ok THEN "false"
  ELSE LET version == nextVersion(JSONparse(pkgRaw).value)
       IN  IF ~truthy(version) THEN "false"
           ELSE IF version.t # "string" THEN "throws"
           ELSE "true"

\* this.context of a NextJSPlugin.  The constructor hands its argument to Plugin,
\* which keeps it as insights; no property named context is ever set.
pluginContext == JsUndefined

\* plugin.detect() on a NextJSPlugin of the project directory.
NextJSDetect ==
  /\ LET out == detectFrom(readFileExecute(pluginContext, "package.json").ret)
     IN  called' = [op |-> "detect", ctx |-> pluginContext, path |-> "package.json",
                    threw |-> (out = "throws"), ret |-> EmptyText,
                    value |-> IF out = "throws" THEN "" ELSE out, lines |-> <<>>]
  /\ UNCHANGED <<disk, boostVars, parseVars>>

\* s.startsWith(p)
startsWith(s, p) == Len(s) >= Len(p) /\ SubSeq(s, 1, Len(p)) = p

\* The text ends with p: /p$/ for a literal p.
endsWith(s, p) == Len(s) >= Len(p) /\ SubSeq(s, Len(s) - Len(p) + 1, Len(s)) = p

\* s.includes(c) for a character c.
includesChar(s, c) == \E k \in DOMAIN s : s[k] = c

\* parts.join(sep)
RECURSIVE joinText(_, _)
joinText(parts, sep) ==
  IF parts = <<>> THEN <<>>
  ELSE IF Len(parts) = 1 THEN parts[1]
  ELSE parts[1] \o sep \o joinText(Tail(parts), sep)

\* The check mark U+2713 and the ballot X U+2717 of the Scripts row.
CheckMark == "(U+2713)"

CrossMark == "(U+2717)"

scriptNames == <<"dev", "build", "start", "lint">>

configCandidates ==
  << Txt_next_config_ts, Txt_next_config_mjs, Txt_next_config_js, Txt_next_config_cjs >>

\* codebase.execute({}) with this bound to ctx: this.context.cwd is read outside any
\* try; buildPathTree rejects when .gitignore cannot be read, else lists the files.
codebaseExecute(ctx) ==
  IF nullish(ctx) \/ nullish(prop(ctx, "context")) THEN [threw |-> TRUE, ret |-> EmptyText]
  ELSE IF ~disk.gitignore THEN [threw |-> TRUE, ret |-> EmptyText]
  ELSE [threw |-> FALSE, ret |-> Json(JsArray(disk.files))]

\* files: the parsed tree if it is an array, else [].
filesOf(treeRaw) ==
  IF treeRaw.kind = "empty" THEN <<>>
  ELSE IF ~JSONparse(treeRaw).ok THEN <<>>
  ELSE IF JSONparse(treeRaw).value.t # "array" THEN <<>>
  ELSE JSONparse(treeRaw).value.a

\* /^\.env(\..+)?$/.test(f) && !f.includes('/')
isEnvFile(f) ==
  /\ f = Txt_dot_env \/ (startsWith(f, Txt_dot_env_) /\ Len(f) > 5)
  /\ ~includesChar(f, "/")

\* A TypeScript source under app/ or pages/.
isTsSource(f) ==
  /\ startsWith(f, Txt_app__) \/ startsWith(f, Txt_pages__)
  /\ endsWith(f, Txt_dot_ts) \/ endsWith(f, Txt_dot_tsx)
  /\ ~endsWith(f, Txt_dot_d_ts)

\* The lines compile() builds from pkg, version and files, before join and trim.
compileLines(pkg, version, files) ==
  LET cleanVersion == IF truthy(version) THEN cleanVersionOf(version.s) ELSE <<"unknown">>
      appDir       == \E n \in DOMAIN files : startsWith(files[n], Txt_app__)
      pagesDir     == \E n \in DOMAIN files : startsWith(files[n], Txt_pages__)
      routingMode  == IF appDir /\ pagesDir THEN "both"
                      ELSE IF appDir THEN "app"
                      ELSE IF pagesDir THEN "pages"
                      ELSE "unknown"
      found        == SelectSeq(configCandidates, LAMBDA c : c \in Range(files))
      configFile   == IF found = <<>> THEN <<"none">> ELSE found[1]
      usesTypeScript == \/ Txt_tsconfig_json \in Range(files)
                        \/ \E n \in DOMAIN files : isTsSource(files[n])
      tailwindDep  == orElse(optProp(optProp(pkg, "dependencies"), "tailwind"),
                             optProp(optProp(pkg, "devDependencies"), "tailwind"))
      hasTailwind  == \/ \E n \in DOMAIN files : startsWith(files[n], Txt_tailwind_config_)
                      \/ truthy(tailwindDep)
      envFiles     == SelectSeq(files, isEnvFile)
      scripts      == orElse(optProp(pkg, "scripts"), JsObject(NoProps))
      marker(n)    == <<n, IF truthy(prop(scripts, n)) THEN CheckMark ELSE CrossMark>>
      scriptMarkers == joinText([k \in DOMAIN scriptNames |-> marker(scriptNames[k])], <<" ">>)
      yesNo(b)     == IF b THEN "yes" ELSE "no"
      tableLines   ==
        << <<"| Attribute | Value |">>,
           <<"| --------- | ----- |">>,
           <<"| Version | ">> \o cleanVersion \o <<" |">>,
           <<"| Routing | ", routingMode, " |">>,
           <<"| TypeScript | ", yesNo(usesTypeScript), " |">>,
           <<"| Tailwind | ", yesNo(hasTailwind), " |">>,
           <<"| Config File | ">> \o configFile \o <<" |">>,
           <<"| Env Files | ">>
             \o (IF envFiles # <<>> THEN joinText(envFiles, <<", ">>) ELSE <<"none">>)
             \o <<" |">>,
           <<"| Scripts | ">> \o scriptMarkers \o <<" |">> >>
      missingCore  == SelectSeq(scriptNames,
                        LAMBDA n : ~truthy(prop(scripts, n)) /\ n \in {"dev", "build", "start"})
  IN  << <<"## Next.js">>,
         <<"Detected Next.js ">> \o cleanVersion \o <<" with ", routingMode, " routing.">>,
         <<>> >>
      \o tableLines
      \o << <<>> >>
      \o (IF routingMode = "both"
          THEN << <<"> Note: Both app/ and pages/ directories detected.">> >>
          ELSE <<>>)
      \o (IF missingCore # <<>>
          THEN << <<>> >> \o [k \in DOMAIN missingCore |->
                                <<"> Warning: Missing script: ", missingCore[k]>>]
          ELSE <<>>)
      \o (IF ~truthy(version)
          THEN << <<>>, <<"> Warning: Version could not be determined">> >>
          ELSE <<>>)

\* lines.join('\n').trim(), as lines: the empty lines at the end are dropped.
RECURSIVE trimLines(_)
trimLines(ls) ==
  IF ls # <<>> /\ ls[Len(ls)] = <<>> THEN trimLines(SubSeq(ls, 1, Len(ls) - 1)) ELSE ls

\* compile() from what readFile.execute returned and the outcome of codebase.execute:
\* it rejects when version is truthy and not a string (version.replace) and when
\* codebase.execute rejects; else it resolves with the lines.
compileFrom(pkgRaw, tree) ==
  LET pkg     == IF pkgRaw.kind # "empty" /\ JSONparse(pkgRaw).ok
                 THEN JSONparse(pkgRaw).value
                 ELSE JsObject(NoProps)
      version == nextVersion(pkg)
  IN  IF truthy(version) /\ version.t # "string" THEN [threw |-> TRUE, lines |-> <<>>]
      ELSE IF tree.threw THEN [threw |-> TRUE, lines |-> <<>>]
      ELSE [threw |-> FALSE,
            lines |-> trimLines(compileLines(pkg, version, filesOf(tree.ret)))]

\* plugin.compile() on a NextJSPlugin of the project directory.
NextJSCompile ==
  /\ LET out == compileFrom(readFileExecute(pluginContext, "package.json").ret,
                            codebaseExecute(pluginContext))
     IN  called' = [op |-> "compile", ctx |-> pluginContext, path |-> "package.json",
                    threw |-> out.threw, ret |-> EmptyText, value |-> "",
                    lines |-> out.lines]
  /\ UNCHANGED <<disk, boostVars, parseVars>>

\* The values of dependencies.next and devDependencies.next in the package.json
\* files considered: none, '', a version, a version range, a number.
DependencyValues ==
  { JsUndefined,
    JsNull,
    JsObject(NoProps),
    JsObject([next |-> JsString(<<>>)]),
    JsObject([next |-> JsString(Txt_caret14_2_0)]),
    JsObject([next |-> JsNumber(14)]) }

DevDependencyValues ==
  { JsUndefined,
    JsObject([tailwind |-> JsString(Txt_3_4_0)]),
    JsObject([next |-> JsString(Txt_tilde14_0_0)]) }

\* scripts: absent, or an object with any of the four scripts.
ScriptsValues ==
  {JsUndefined} \cup
  { JsObject([n \in S |-> JsString(<<"next ", n>>)]) : S \in SUBSET {"dev", "build", "start", "lint"} }

\* obj with key set to v, or obj itself when v is undefined (the key is absent).
withProp(f, key, v) == IF v = JsUndefined THEN f ELSE (key :> v) @@ f

Packages ==
  { JsObject(withProp(withProp(withProp(NoProps, "dependencies", d), "devDependencies", dd),
                      "scripts", sc)) :
      d \in DependencyValues, dd \in DevDependencyValues, sc \in ScriptsValues }

\* package.json: missing, empty, not JSON, the JSON text null, or a package object.
PackageFiles ==
  {Absent, File(EmptyText), File(NotJson), File(Json(JsNull))}
  \cup { File(Json(p)) : p \in Packages }

\* The file lists of the project directories considered.
FileLists ==
  { <<>>,
    << Txt_app_page_tsx, Txt_pages_index_tsx, Txt_next_config_ts, Txt_tailwind_config_js,
       Txt_tsconfig_json, Txt_dot_env_local >>,
    << Txt_pages_index_js, Txt_next_config_js, Txt_next_config_mjs, Txt_dot_env, Txt_src__env_d_ts >> }

Disks ==
  [package : PackageFiles, notes : {Absent, File(EmptyText), File(NotJson)},
   gitignore : BOOLEAN, files : FileLists]

\* A project directory, and nothing called yet.
InitPlugin ==
  /\ argv = <<>>
  /\ pc = "idle"
  /\ j = 0
  /\ i = 0
  /\ commandIndex = Undefined
  /\ command = <<>>
  /\ params = <<>>
  /\ result = <<>>
  /\ scan1 = <<>>
  /\ scan2 = <<>>
  /\ input = <<>>
  /\ invocations = 0
  /\ first = <<>>
  /\ BoostNew
  /\ disk \in Disks
  /\ called = NoCall

NextPlugin ==
  \/ ReadFile
  \/ NextJSDetect
  \/ NextJSCompile

SpecPlugin == InitPlugin /\ [][NextPlugin]_vars

----------------------------------------------------------------------------
(* Claims about the tools and NextJSPlugin, checked under SpecPlugin.               *)

\* The file a read by the readFile tool bound to ctx is made on: the one at path
\* under the context's insights.cwd; Absent if the context names no directory or no
\* file is there, so that no read can succeed.
FileAsked(ctx, path) ==
  IF /\ ctx.t = "object"
     /\ "insights" \in DOMAIN ctx.f
     /\ ctx.f.insights.t = "object"
     /\ "cwd" \in DOMAIN ctx.f.insights.f
     /\ ctx.f.insights.f.cwd = JsString(<<"/project">>)
  THEN CASE path = "package.json" -> disk.package
         [] path = "notes.txt" -> disk.notes
         [] OTHER -> Absent
  ELSE Absent

\* C23: readFile.execute never throws; it returns the file's content when the read
\* succeeds and the empty string when it fails, for every path (and every context
\* the tool is bound to).
C23_ReadFileNeverThrows ==
  called.op = "readFile" =>
    /\ ~called.threw
    /\ IF FileAsked(called.ctx, called.path).k = "text"
       THEN called.ret = FileAsked(called.ctx, called.path).text
       ELSE called.ret = [kind |-> "empty"]

\* A read of package.json returned its JSON text.
C23_Witness ==
  /\ called.op = "readFile"
  /\ called.path = "package.json"
  /\ called.ret.kind = "json"
  /\ called.ret = disk.package.text

----------------------------------------------------------------------------
\* Truthiness of a JSON value, on the claims' side.
IsTruthy(v) ==
  CASE v.t = "string" -> v.s # <<>>
    [] v.t = "number" -> v.n # 0
    [] v.t \in {"null", "undefined"} -> FALSE
    [] OTHER -> TRUE

\* v is an object whose property key is an object with a truthy next.
HasNextUnder(v, key) ==
  /\ v.t = "object"
  /\ key \in DOMAIN v.f
  /\ v.f[key].t = "object"
  /\ "next" \in DOMAIN v.f[key].f
  /\ IsTruthy(v.f[key].f.next)

\* package.json is readable, parses as JSON, and has a truthy dependencies.next or
\* devDependencies.next.
PackageHasNext ==
  /\ disk.package.k = "text"
  /\ disk.package.text.kind = "json"
  /\ \/ HasNextUnder(disk.package.text.value, "dependencies")
     \/ HasNextUnder(disk.package.text.value, "devDependencies")

\* C21: NextJSPlugin.detect() does not throw, and returns true if and only if
\* package.json is readable, parses as JSON and has a truthy dependencies.next or
\* devDependencies.next; otherwise (missing, empty, malformed, no next) it returns
\* false.
C21_AsStated ==
  called.op = "detect" =>
    /\ ~called.threw
    /\ called.value = IF PackageHasNext THEN "true" ELSE "false"

\* The script is missing from package.json.
ScriptMissing(n) ==
  ~ /\ disk.package.k = "text"
    /\ disk.package.text.kind = "json"
    /\ disk.package.text.value.t = "object"
    /\ "scripts" \in DOMAIN disk.package.text.value.f
    /\ disk.package.text.value.f.scripts.t = "object"
    /\ n \in DOMAIN disk.package.text.value.f.scripts.f

\* The lines mark each of the four scripts as present or missing, and hold a warning
\* line for each one missing.
ScriptsReported(lines) ==
  \A n \in {"dev", "build", "start", "lint"} :
    /\ \E k \in DOMAIN lines :
         /\ lines[k] # <<>>
         /\ lines[k][1] = "| Scripts | "
         /\ \E m \in 1..(Len(lines[k]) - 1) :
              /\ lines[k][m] = n
              /\ lines[k][m + 1] = IF ScriptMissing(n) THEN "(U+2717)" ELSE "(U+2713)"
    /\ ScriptMissing(n) =>
         \E k \in DOMAIN lines : lines[k] = <<"> Warning: Missing script: ", n>>

\* What compile() builds when readFile.execute returns the text of package.json and
\* codebase.execute the list of files.
LinesBuilt ==
  compileFrom(IF disk.package.k = "text" THEN disk.package.text ELSE [kind |-> "empty"],
              [threw |-> FALSE, ret |-> Json(JsArray(disk.files))])

\* C22: NextJSPlugin.compile() marks each of dev, build, start, lint as present or
\* missing, and for every one of the four that is missing from package.json its
\* output has the line '> Warning: Missing script: <name>': both in what a call of
\* compile() returns, and in the lines compile() builds from the text of package.json
\* and the list of files.
C22_AsStated ==
  called.op = "compile" =>
    /\ ~called.threw
    /\ ScriptsReported(called.lines)
    /\ ~LinesBuilt.threw => ScriptsReported(LinesBuilt.lines)

====
